---- MODULE Spec2Model ----
(***************************************************************************)
(* A model of docs/conf.py, the Sphinx configuration script: a linear,     *)
(* run-to-completion script that loads pyproject.toml, regenerates the     *)
(* OpenAPI file with a subprocess, writes the transpiler graph and then    *)
(* assembles the Sphinx configuration; plus the setup(app) hook.           *)
(* The state holds the globals the script computes from its inputs and the *)
(* two files it writes. The option values copied from the sub-tables       *)
(* (autosectionlabel, graphviz, todo, intersphinx-mapping), the theme      *)
(* settings, the copied extra files and the sphinx_click patch are left    *)
(* out: nothing modelled here reads them.                                  *)
(***************************************************************************)
EXTENDS Integers, Sequences, FiniteSets, TLC

(* ------------------------------------------------------------------ *)
(* Bounds of the model                                                *)
(* ------------------------------------------------------------------ *)
MaxTypes == 2
MaxInstances == 2
MaxCost == 2
MaxMdExtensions == 2
MaxKeys == 2

(* ------------------------------------------------------------------ *)
(* Python / TOML values, tagged with their type                       *)
(* ------------------------------------------------------------------ *)
Absent == [t |-> "absent"]
PyNone == [t |-> "none"]
VBool(b) == [t |-> "bool", v |-> b]
VInt(n) == [t |-> "int", v |-> n]
VStr(s) == [t |-> "str", v |-> s]
VList(l) == [t |-> "list", v |-> l]
VTable(d) == [t |-> "table", v |-> d]

\* Python truthiness (bool(x)) of a value.
Truthy(x) ==
    CASE x.t = "absent" -> FALSE
      [] x.t = "none" -> FALSE
      [] x.t = "bool" -> x.v
      [] x.t = "int" -> x.v # 0
      [] x.t = "str" -> Len(x.v) # 0
      [] x.t = "list" -> Len(x.v) # 0
      [] x.t = "table" -> DOMAIN x.v # {}

\* dict.get(key, default) on a table whose missing keys are marked Absent.
Get(tbl, key, default) ==
    IF key \in DOMAIN tbl /\ tbl[key].t # "absent" THEN tbl[key] ELSE default

\* str(x) for the values the script converts.
PyStr(x) ==
    CASE x.t = "str" -> x.v
      [] x.t = "int" -> ToString(x.v)
      [] x.t = "bool" -> IF x.v THEN "True" ELSE "False"
      [] OTHER -> "None"

(* ------------------------------------------------------------------ *)
(* The transpiler registry consumed by the script                     *)
(* ------------------------------------------------------------------ *)
\* The known formats, in ascending order of Python's string comparison.
KnownFormats == <<"qasm2", "qiskit">>

Formats == {KnownFormats[i] : i \in 1..Len(KnownFormats)}

TypeIds == 1..MaxTypes

Costs == 1..MaxCost

\* The class attributes of a transpiler type.
TranspilerAttrs == [source : Formats, target : Formats, cost : Costs, unsafe : BOOLEAN]

\* Position of a format name in the lexicographic order of str.
StrRank(s) == CHOOSE i \in 1..Len(KnownFormats) : KnownFormats[i] = s

\* Python's < on str, for format names.
StrLess(a, b) == StrRank(a) < StrRank(b)

\* Python's < on bool: False < True.
BoolLess(a, b) == ~a /\ b

\* A sort key that leaves the formats out.
SortKeyWithoutFormats(a) == <<a.unsafe, a.cost, "qasm2", "qasm2">>

\* The sort key of line 88: (t.unsafe, t.cost, t.source, t.target).
SortKey(a) == <<a.unsafe, a.cost, a.source, a.target>>

\* A comparison that looks at the cost before the unsafe flag.
KeyLessCostFirst(k1, k2) ==
    IF k1[2] # k2[2] THEN k1[2] < k2[2]
    ELSE IF k1[1] # k2[1] THEN BoolLess(k1[1], k2[1])
    ELSE IF k1[3] # k2[3] THEN StrLess(k1[3], k2[3])
    ELSE IF k1[4] # k2[4] THEN StrLess(k1[4], k2[4])
    ELSE FALSE

\* Python's < on the key tuples: decided by the first differing component.
KeyLess(k1, k2) ==
    IF k1[1] # k2[1] THEN BoolLess(k1[1], k2[1])
    ELSE IF k1[2] # k2[2] THEN k1[2] < k2[2]
    ELSE IF k1[3] # k2[3] THEN StrLess(k1[3], k2[3])
    ELSE IF k1[4] # k2[4] THEN StrLess(k1[4], k2[4])
    ELSE FALSE

\* An annotation that tests the cost before the unsafe flag.
get_edge_attrs_cost_first(a) ==
    IF a.cost = 1 THEN ""
    ELSE IF a.unsafe
    THEN "[label=\"" \o ToString(a.cost)
            \o "; unsafe\", style=\"dashed\", color=\"#555555\", fontcolor=\"#555555\"]"
    ELSE "[label=\"" \o ToString(a.cost) \o "\"]"

\* get_edge_attrs of lines 76-82.
get_edge_attrs(a) ==
    IF a.unsafe
    THEN "[label=\"" \o ToString(a.cost)
            \o "; unsafe\", style=\"dashed\", color=\"#555555\", fontcolor=\"#555555\"]"
    ELSE IF a.cost = 1 THEN ""
    ELSE "[label=\"" \o ToString(a.cost) \o "\"]"

\* The f-string of line 87: one edge line.
EdgeLine(a) ==
    "\"" \o a.source \o "\" -> \"" \o a.target \o "\" " \o get_edge_attrs(a)

\* sep.join(lines)
RECURSIVE Join(_, _)
Join(lines, sep) ==
    IF lines = <<>> THEN ""
    ELSE IF Len(lines) = 1 THEN lines[1]
    ELSE lines[1] \o sep \o Join(Tail(lines), sep)

\* Every order in which a Python set with the elements of S can be iterated.
RECURSIVE IterationOrders(_)
IterationOrders(S) ==
    IF S = {} THEN {<<>>}
    ELSE UNION {{<<x>> \o rest : rest \in IterationOrders(S \ {x})} : x \in S}

\* sorted(..., key=...): a stable sort, here by insertion of the elements in
\* iteration order, each placed after the elements whose key is not greater.
InsertSorted(sorted, x, attrs) ==
    LET p == Cardinality({i \in 1..Len(sorted) :
                 ~KeyLess(SortKey(attrs[x]), SortKey(attrs[sorted[i]]))})
    IN SubSeq(sorted, 1, p) \o <<x>> \o SubSeq(sorted, p + 1, Len(sorted))

RECURSIVE SortedFrom(_, _, _)
SortedFrom(sorted, order, attrs) ==
    IF order = <<>> THEN sorted
    ELSE SortedFrom(InsertSorted(sorted, Head(order), attrs), Tail(order), attrs)

Sorted(order, attrs) == SortedFrom(<<>>, order, attrs)

\* The generator of line 87: one edge line per sorted transpiler.
EdgeLines(sorted, attrs) == [i \in 1..Len(sorted) |-> EdgeLine(attrs[sorted[i]])]

\* Lines 85-90: the text of transpilers.dot for the edge lines.
GraphText(lines) == "digraph {\n" \o Join(lines, "\n") \o "\n}\n"

\* A collection that keeps only the types of the last format (= instead of update).
CollectTypesOfLastFormat(formats, returned) ==
    IF formats = <<>> THEN {}
    ELSE {returned[formats[Len(formats)]][i] :
             i \in 1..Len(returned[formats[Len(formats)]])}

\* Lines 71-73: the set of the types of all transpilers of all known formats.
RECURSIVE CollectTypes(_, _)
CollectTypes(formats, returned) ==
    IF formats = <<>> THEN {}
    ELSE {returned[Head(formats)][i] : i \in 1..Len(returned[Head(formats)])}
            \cup CollectTypes(Tail(formats), returned)

(* ------------------------------------------------------------------ *)
(* The manifest: [tool.sphinx] of pyproject.toml                      *)
(* ------------------------------------------------------------------ *)
FlagKeys ==
    {"enable-autodoc", "enable-autosectionlabel", "intersphinx-mapping",
     "enable-githubpages", "enable-graphviz", "enable-napoleon", "enable-todo"}

SphinxKeys ==
    FlagKeys \cup {"release", "enable-markdown", "myst", "recommonmark"}

\* A [tool.sphinx] table with no key set.
EmptySphinx == [k \in SphinxKeys |-> Absent]

\* The extension each flag of lines 131-190 appends.
FlagExtension(k) ==
    CASE k = "enable-autodoc" -> "sphinx.ext.autodoc"
      [] k = "enable-autosectionlabel" -> "sphinx.ext.autosectionlabel"
      [] k = "intersphinx-mapping" -> "sphinx.ext.intersphinx"
      [] k = "enable-githubpages" -> "sphinx.ext.githubpages"
      [] k = "enable-graphviz" -> "sphinx.ext.graphviz"
      [] k = "enable-napoleon" -> "sphinx.ext.napoleon"
      [] k = "enable-todo" -> "sphinx.ext.todo"

\* extensions.append(ext) when the flag is truthy (each "if" of lines 131-190).
AppendIf(exts, cfg, k) ==
    IF Truthy(Get(cfg, k, VBool(FALSE))) THEN Append(exts, FlagExtension(k)) ELSE exts

\* Line 111.
BaseExtensions == <<"sphinxcontrib.redoc", "sphinx_click", "sphinx.ext.autodoc">>

\* str.lower() on a string held as a tuple of characters.
LowerChar(c) ==
    CASE c = "M" -> "m" [] c = "Y" -> "y" [] c = "S" -> "s" [] c = "T" -> "t"
      [] c = "R" -> "r" [] c = "E" -> "e" [] c = "C" -> "c" [] c = "O" -> "o"
      [] c = "N" -> "n" [] c = "A" -> "a" [] c = "K" -> "k" [] c = "D" -> "d"
      [] OTHER -> c

Lower(s) == [i \in 1..Len(s) |-> LowerChar(s[i])]

StrMyst == <<"m", "y", "s", "t">>

StrRecommonmark == <<"r", "e", "c", "o", "m", "m", "o", "n", "m", "a", "r", "k">>

\* Lines 239-251.
allowed_md_extensions ==
    {"amsmath", "colon_fence", "deflist", "dollarmath", "html_admonition",
     "html_image", "linkify", "replacements", "smartquotes", "substitution",
     "tasklist"}

\* The filter of line 260: the names that are not allowed.
RECURSIVE FilterUnknown(_)
FilterUnknown(xs) ==
    IF xs = <<>> THEN <<>>
    ELSE IF Head(xs) \notin allowed_md_extensions
         THEN <<Head(xs)>> \o FilterUnknown(Tail(xs))
         ELSE FilterUnknown(Tail(xs))

\* [x for x in xs if x in allowed] (line 259).
RECURSIVE FilterAllowed(_)
FilterAllowed(xs) ==
    IF xs = <<>> THEN <<>>
    ELSE IF Head(xs) \in allowed_md_extensions
         THEN <<Head(xs)>> \o FilterAllowed(Tail(xs))
         ELSE FilterAllowed(Tail(xs))

\* A replacement of the first hyphen only, as key.replace("-", "_", 1) does.
ReplaceFirstHyphen(key) ==
    [i \in 1..Len(key) |->
        IF key[i] = "-" /\ (\A j \in 1..(i - 1) : key[j] # "-") THEN "_" ELSE key[i]]

\* key.replace("-", "_") on a key held as a tuple of characters (line 275).
ReplaceHyphens(key) == [i \in 1..Len(key) |-> IF key[i] = "-" THEN "_" ELSE key[i]]

\* Lines 271-276: the dict registered as recommonmark_config. The loop sets the
\* underscored keys in iteration order (a later key overwrites an earlier one
\* with the same underscored name), then update() adds the table itself.
RECURSIVE UnderscoredFrom(_, _, _)
UnderscoredFrom(acc, keys, table) ==
    IF keys = <<>> THEN acc
    ELSE LET k == ReplaceHyphens(Head(keys))
         IN UnderscoredFrom(
                [x \in DOMAIN acc \cup {k} |-> IF x = k THEN table[Head(keys)] ELSE acc[x]],
                Tail(keys), table)

RecommonmarkConfig(table, keys) ==
    LET under == UnderscoredFrom(<<>>, keys, table)
    IN [x \in DOMAIN under \cup DOMAIN table |->
            IF x \in DOMAIN table THEN table[x] ELSE under[x]]

(* ------------------------------------------------------------------ *)
(* State                                                              *)
(* ------------------------------------------------------------------ *)
VARIABLES
    pyproject,      \* pyproject.toml: [file, version, sphinx]
    flask,          \* what "flask openapi write" will do: [result, version]
    registry,       \* CircuitTranspiler: [types, returned]
    api_json,       \* the file docs/api.json
    transpilers_dot,\* the file docs/pilot_documentation/transpilers.dot
    pc,             \* position of the script
    error,          \* the exception that ended the script, or "none"
    sphinx_config,  \* line 48
    version,        \* lines 54 and 104
    release,        \* line 55
    transpilers,    \* line 71
    edges,          \* the sorted transpilers the generator of line 87 walks
    edge_lines,     \* the lines that generator yields
    transpilers_graph, \* line 85
    extensions,     \* line 111
    source_suffix,  \* line 119
    myst_enable_extensions, \* line 149
    app             \* the calls made on the Sphinx app by setup(app)

vars ==
    <<pyproject, flask, registry, api_json, transpilers_dot, pc, error,
      sphinx_config, version, release, transpilers, edges, edge_lines,
      transpilers_graph, extensions, source_suffix, myst_enable_extensions, app>>

inputs == <<pyproject, flask, registry>>

NoFile == [exists |-> FALSE]

Unset == "<unset>"

\* The state before the first statement of the script, for given inputs.
Start(pp, fl, reg, api) ==
    /\ pyproject = pp
    /\ flask = fl
    /\ registry = reg
    /\ api_json = api
    /\ transpilers_dot = NoFile
    /\ pc = "load_manifest"
    /\ error = "none"
    /\ sphinx_config = Absent
    /\ version = Unset
    /\ release = Unset
    /\ transpilers = {}
    /\ edges = <<>>
    /\ edge_lines = <<>>
    /\ transpilers_graph = Unset
    /\ extensions = <<>>
    /\ source_suffix = <<>>
    /\ myst_enable_extensions = <<>>
    /\ app = <<>>

\* The script ends with an unhandled exception.
Raise(exc) ==
    /\ pc' = "aborted"
    /\ error' = exc

(* ------------------------------------------------------------------ *)
(* The statements of the script                                       *)
(* ------------------------------------------------------------------ *)
\* Lines 44-58: open and parse pyproject.toml, read the project metadata.
LoadManifest ==
    /\ pc = "load_manifest"
    /\ IF pyproject.file = "missing"
       THEN Raise("FileNotFoundError") /\ UNCHANGED <<sphinx_config, version, release>>
       ELSE IF pyproject.file = "malformed"
       THEN Raise("TOMLDecodeError") /\ UNCHANGED <<sphinx_config, version, release>>
       ELSE IF pyproject.sphinx.t # "table"
       THEN \* sphinx_config is None: sphinx_config.get of line 52 raises
            /\ Raise("AttributeError")
            /\ sphinx_config' = PyNone
            /\ UNCHANGED <<version, release>>
       ELSE /\ sphinx_config' = pyproject.sphinx.v
            /\ version' = PyStr(pyproject.version)
            /\ release' = PyStr(Get(pyproject.sphinx.v, "release",
                                    VStr(PyStr(pyproject.version))))
            /\ pc' = "run_flask"
            /\ UNCHANGED error
    /\ UNCHANGED <<inputs, api_json, transpilers_dot, transpilers, edges, edge_lines,
                   transpilers_graph, extensions, source_suffix,
                   myst_enable_extensions, app>>

\* Lines 62-65: subprocess.run without check=True. A missing executable raises;
\* a non-zero exit status is returned in the CompletedProcess and ignored.
RunFlask ==
    /\ pc = "run_flask"
    /\ IF flask.result = "notfound"
       THEN Raise("FileNotFoundError") /\ UNCHANGED api_json
       ELSE /\ api_json' = IF flask.result = "ok"
                           THEN [exists |-> TRUE, version |-> flask.version]
                           ELSE api_json
            /\ pc' = "collect"
            /\ UNCHANGED error
    /\ UNCHANGED <<inputs, transpilers_dot, sphinx_config, version, release,
                   transpilers, edges, edge_lines, transpilers_graph, extensions,
                   source_suffix, myst_enable_extensions, app>>

\* Lines 71-73.
CollectTranspilers ==
    /\ pc = "collect"
    /\ transpilers' = CollectTypes(KnownFormats, registry.returned)
    /\ pc' = "build_graph"
    /\ UNCHANGED <<inputs, api_json, transpilers_dot, error, sphinx_config,
                   version, release, edges, edge_lines, transpilers_graph, extensions,
                   source_suffix, myst_enable_extensions, app>>

\* Lines 85-90. The set is iterated in an order the run does not control.
BuildGraph ==
    /\ pc = "build_graph"
    /\ \E order \in IterationOrders(transpilers) :
          LET sorted == Sorted(order, registry.types)
              lines == EdgeLines(sorted, registry.types)
          IN /\ edges' = sorted
             /\ edge_lines' = lines
             /\ transpilers_graph' = GraphText(lines)
    /\ pc' = "write_dot"
    /\ UNCHANGED <<inputs, api_json, transpilers_dot, error, sphinx_config,
                   version, release, transpilers, extensions, source_suffix,
                   myst_enable_extensions, app>>

\* Lines 92-93.
WriteDot ==
    /\ pc = "write_dot"
    /\ transpilers_dot' = [exists |-> TRUE, text |-> transpilers_graph]
    /\ pc' = "read_api"
    /\ UNCHANGED <<inputs, api_json, error, sphinx_config, version, release,
                   transpilers, edges, edge_lines, transpilers_graph, extensions,
                   source_suffix, myst_enable_extensions, app>>

\* Lines 95-104: the version of the API specification is assigned to "version".
ReadApiSpec ==
    /\ pc = "read_api"
    /\ IF ~api_json.exists
       THEN Raise("FileNotFoundError") /\ UNCHANGED version
       ELSE /\ version' = api_json.version
            /\ pc' = "general"
            /\ UNCHANGED error
    /\ UNCHANGED <<inputs, api_json, transpilers_dot, sphinx_config, release,
                   transpilers, edges, edge_lines, transpilers_graph, extensions,
                   source_suffix, myst_enable_extensions, app>>

\* Lines 111-147: the base extensions, autodoc, autosectionlabel, intersphinx.
ConfigureGeneral ==
    /\ pc = "general"
    /\ extensions' =
          AppendIf(AppendIf(AppendIf(BaseExtensions, sphinx_config, "enable-autodoc"),
                            sphinx_config, "enable-autosectionlabel"),
                   sphinx_config, "intersphinx-mapping")
    /\ source_suffix' = [x \in {".rst"} |-> "restructuredtext"]
    /\ pc' = "markdown"
    /\ UNCHANGED <<inputs, api_json, transpilers_dot, error, sphinx_config,
                   version, release, transpilers, edges, edge_lines, transpilers_graph,
                   myst_enable_extensions, app>>

\* A choice of parser that compares the value without lower().
MarkdownParserCaseSensitive(plugin) ==
    IF plugin.t = "bool" THEN "myst_parser"
    ELSE IF plugin.v = StrMyst THEN "myst_parser"
    ELSE IF plugin.v = StrRecommonmark THEN "recommonmark"
    ELSE "myst_parser"

\* The parser lines 154-160 choose for a truthy enable-markdown value that is
\* True or a string.
MarkdownParser(plugin) ==
    IF plugin.t = "bool" THEN "myst_parser"
    ELSE IF Lower(plugin.v) = StrMyst THEN "myst_parser"
    ELSE IF Lower(plugin.v) = StrRecommonmark THEN "recommonmark"
    ELSE "myst_parser"

\* Lines 149-164. A truthy value that is neither True nor a string has no
\* lower() method.
ConfigureMarkdown ==
    /\ pc = "markdown"
    /\ myst_enable_extensions' = <<>>
    /\ LET plugin == Get(sphinx_config, "enable-markdown", VBool(FALSE))
       IN IF ~Truthy(plugin)
          THEN /\ pc' = "more_extensions"
               /\ UNCHANGED <<error, extensions, source_suffix>>
          ELSE IF plugin.t \notin {"bool", "str"}
          THEN Raise("AttributeError") /\ UNCHANGED <<extensions, source_suffix>>
          ELSE /\ extensions' = Append(extensions, MarkdownParser(plugin))
               /\ source_suffix' =
                     [x \in DOMAIN source_suffix \cup {".txt", ".md"} |->
                         IF x \in {".txt", ".md"} THEN "markdown" ELSE source_suffix[x]]
               /\ pc' = "more_extensions"
               /\ UNCHANGED error
    /\ UNCHANGED <<inputs, api_json, transpilers_dot, sphinx_config, version,
                   release, transpilers, edges, edge_lines, transpilers_graph, app>>

\* Lines 166-190: githubpages, graphviz, napoleon, todo.
ConfigureMoreExtensions ==
    /\ pc = "more_extensions"
    /\ extensions' =
          AppendIf(AppendIf(AppendIf(AppendIf(extensions, sphinx_config, "enable-githubpages"),
                                     sphinx_config, "enable-graphviz"),
                            sphinx_config, "enable-napoleon"),
                   sphinx_config, "enable-todo")
    /\ pc' = "myst"
    /\ UNCHANGED <<inputs, api_json, transpilers_dot, error, sphinx_config,
                   version, release, transpilers, edges, edge_lines, transpilers_graph,
                   source_suffix, myst_enable_extensions, app>>

\* Lines 238-262: the myst extensions that are allowed.
ConfigureMyst ==
    /\ pc = "myst"
    /\ LET myst == Get(sphinx_config, "myst", VTable(<<>>))
       IN IF myst.t # "table"
          THEN \* _myst_options.get of line 253 on a value that is no table
               Raise("AttributeError") /\ UNCHANGED myst_enable_extensions
          ELSE LET md == Get(myst.v, "extensions", PyNone)
               IN /\ myst_enable_extensions' =
                        IF Truthy(md) /\ md.t = "list"
                        THEN FilterAllowed(md.v)
                        ELSE myst_enable_extensions
                  /\ pc' = "done"
                  /\ UNCHANGED error
    /\ UNCHANGED <<inputs, api_json, transpilers_dot, sphinx_config, version,
                   release, transpilers, edges, edge_lines, transpilers_graph, extensions,
                   source_suffix, app>>

\* Lines 270-284: the hook Sphinx calls once after it has loaded the script.
Setup ==
    /\ pc = "done"
    /\ LET config == Get(sphinx_config, "recommonmark", PyNone)
       IN app' =
            IF Truthy(config)
            THEN app \o <<[call |-> "add_config_value",
                           name |-> "recommonmark_config",
                           value |-> RecommonmarkConfig(config.v, config.order),
                           rebuild |-> TRUE],
                          [call |-> "add_transform", transform |-> "AutoStructify"]>>
            ELSE app
    /\ pc' = "set_up"
    /\ UNCHANGED <<inputs, api_json, transpilers_dot, error, sphinx_config,
                   version, release, transpilers, edges, edge_lines, transpilers_graph,
                   extensions, source_suffix, myst_enable_extensions>>

Next ==
    \/ LoadManifest
    \/ RunFlask
    \/ CollectTranspilers
    \/ BuildGraph
    \/ WriteDot
    \/ ReadApiSpec
    \/ ConfigureGeneral
    \/ ConfigureMarkdown
    \/ ConfigureMoreExtensions
    \/ ConfigureMyst
    \/ Setup

(* ------------------------------------------------------------------ *)
(* The inputs of the runs                                             *)
(* ------------------------------------------------------------------ *)
SeqsUpTo(S, n) == UNION {[1..k -> S] : k \in 0..n}

\* A well-formed manifest, an OpenAPI command that works, one transpiler.
PlainPyproject == [file |-> "ok", version |-> VStr("1.0.0"), sphinx |-> VTable(EmptySphinx)]

PlainFlask == [result |-> "ok", version |-> "1.0.0"]

PlainRegistry ==
    [types |-> [t \in TypeIds |-> [source |-> "qasm2", target |-> "qiskit",
                                   cost |-> 1, unsafe |-> FALSE]],
     returned |-> [f \in Formats |-> IF f = "qiskit" THEN <<1>> ELSE <<>>]]

\* The plain manifest with the given [tool.sphinx] table.
PyprojectWith(tbl) == [PlainPyproject EXCEPT !.sphinx = VTable(tbl)]

\* The instances get_transpilers returns, format after format.
RECURSIVE AllReturned(_, _)
AllReturned(formats, returned) ==
    IF formats = <<>> THEN <<>>
    ELSE returned[Head(formats)] \o AllReturned(Tail(formats), returned)

\* Type ids are numbered in the order in which get_transpilers first returns them.
NumberedInOrder(seq) ==
    \A i \in 1..Len(seq) : \A t \in 1..(seq[i] - 1) : \E j \in 1..(i - 1) : seq[j] = t

DefaultAttrs == [source |-> "qasm2", target |-> "qiskit", cost |-> 1, unsafe |-> FALSE]

\* Runs over every registry of at most MaxTypes transpiler types and
\* MaxInstances registered instances.
InitGraph ==
    \E returned \in [Formats -> SeqsUpTo(TypeIds, MaxInstances)] :
        /\ Len(AllReturned(KnownFormats, returned)) <= MaxInstances
        /\ NumberedInOrder(AllReturned(KnownFormats, returned))
        /\ \E attrs \in [CollectTypes(KnownFormats, returned) -> TranspilerAttrs] :
              Start(PlainPyproject, PlainFlask,
                    [types |-> [t \in TypeIds |->
                                   IF t \in DOMAIN attrs THEN attrs[t] ELSE DefaultAttrs],
                     returned |-> returned],
                    NoFile)

\* Runs over every state of the files and of the OpenAPI command.
InitEnv ==
    \E file \in {"ok", "missing", "malformed"} :
    \E sphinx \in {TRUE, FALSE} :
    \E ver \in {VStr("1.0.0"), VStr("1.1.0")} :
    \E rel \in {Absent, VStr("1.1.0"), VStr("2.0.0rc1")} :
    \E result \in {"ok", "nonzero", "notfound"} :
    \E apiver \in {"1.0.0", "0.9.0"} :
    \E old \in {NoFile, [exists |-> TRUE, version |-> "0.9.0"]} :
        Start([file |-> file, version |-> ver,
               sphinx |-> IF sphinx
                          THEN VTable([EmptySphinx EXCEPT !["release"] = rel])
                          ELSE Absent],
              [result |-> result, version |-> apiver], PlainRegistry, old)

FlagValues == {Absent, VBool(FALSE), VBool(TRUE)}

MappingValues ==
    {Absent, VTable(<<>>),
     VTable([k \in {"python"} |-> VList(<<"https://docs.python.org/3">>)])}

MarkdownValues ==
    {Absent, VBool(FALSE), VBool(TRUE), VInt(0), VInt(1), VStr(<<>>),
     VStr(StrMyst), VStr(<<"M", "y", "S", "T">>),
     VStr(StrRecommonmark),
     VStr(<<"R", "e", "C", "o", "m", "m", "o", "n", "M", "a", "r", "k">>),
     VStr(<<"m", "a", "r", "k", "d", "o", "w", "n">>)}

\* Runs over every combination of the feature flags.
InitConfig ==
    \E flags \in [FlagKeys \ {"intersphinx-mapping"} -> FlagValues] :
    \E mapping \in MappingValues :
    \E md \in MarkdownValues :
        Start(PyprojectWith([k \in SphinxKeys |->
                  IF k = "intersphinx-mapping" THEN mapping
                  ELSE IF k = "enable-markdown" THEN md
                  ELSE IF k \in FlagKeys THEN flags[k]
                  ELSE Absent]),
              PlainFlask, PlainRegistry, NoFile)

MdNames == {"amsmath", "deflist", "mermaid", "tasklist", "attrs_inline"}

MystValues ==
    {Absent, VInt(1), VTable(<<>>)}
    \cup {VTable([k \in {"extensions"} |-> e]) :
            e \in {VBool(TRUE), VStr("amsmath")}
                  \cup {VList(l) : l \in SeqsUpTo(MdNames, MaxMdExtensions)}}

\* Runs over the myst tables of the manifest.
InitMyst ==
    \E myst \in MystValues :
    \E md \in {Absent, VBool(TRUE), VStr(StrRecommonmark)} :
        Start(PyprojectWith([EmptySphinx EXCEPT !["myst"] = myst,
                                                !["enable-markdown"] = md]),
              PlainFlask, PlainRegistry, NoFile)

RecommonmarkKeys ==
    {<<"a">>, <<"a", "-", "b">>, <<"a", "_", "b">>, <<"-", "-">>,
     <<"a", "-", "b", "-", "c">>}

\* The recommonmark tables: the keys in file order, and their values.
RecommonmarkTables ==
    UNION {{[t |-> "table", v |-> vals, order |-> keys] :
               vals \in [{keys[i] : i \in 1..Len(keys)} -> BOOLEAN]} :
              keys \in {q \in SeqsUpTo(RecommonmarkKeys, MaxKeys) :
                           \A i, j \in 1..Len(q) : i # j => q[i] # q[j]}}

\* Runs over the recommonmark tables of the manifest.
InitSetup ==
    \E rcm \in {Absent} \cup RecommonmarkTables :
        Start(PyprojectWith([EmptySphinx EXCEPT !["recommonmark"] = rcm]),
              PlainFlask, PlainRegistry, NoFile)

SpecGraph == InitGraph /\ [][Next]_vars

SpecEnv == InitEnv /\ [][Next]_vars

SpecConfig == InitConfig /\ [][Next]_vars

SpecMyst == InitMyst /\ [][Next]_vars

SpecSetup == InitSetup /\ [][Next]_vars

(* ------------------------------------------------------------------ *)
(* The transpiler graph: C1, C2, C3, C5 (under SpecGraph)             *)
(* ------------------------------------------------------------------ *)
\* The attributes of the transpiler type behind the i-th edge.
EdgeAttrs(i) == registry.types[edges[i]]

\* a's key (unsafe, cost, source, target) is less than or equal to b's.
KeyAtMost(a, b) ==
    \/ ~a.unsafe /\ b.unsafe
    \/ a.unsafe = b.unsafe /\ a.cost < b.cost
    \/ a.unsafe = b.unsafe /\ a.cost = b.cost /\ StrRank(a.source) < StrRank(b.source)
    \/ /\ a.unsafe = b.unsafe /\ a.cost = b.cost /\ a.source = b.source
       /\ StrRank(a.target) <= StrRank(b.target)

\* C1: in the written transpilers.dot there is one edge line per entry of the
\* sorted list, consecutive edges are in ascending order of (unsafe, cost,
\* source, target), and every safe edge precedes every unsafe edge.
C1_EdgesAscending ==
    transpilers_dot.exists =>
        /\ Len(edge_lines) = Len(edges)
        /\ transpilers_dot.text = GraphText(edge_lines)
        /\ \A i \in 1..(Len(edges) - 1) : KeyAtMost(EdgeAttrs(i), EdgeAttrs(i + 1))
        /\ \A i, j \in 1..Len(edges) :
              ~EdgeAttrs(i).unsafe /\ EdgeAttrs(j).unsafe => i < j

\* A written graph whose first edge is safe and costly and whose second edge
\* is unsafe and cheap.
C1_Witness ==
    /\ transpilers_dot.exists
    /\ Len(edges) = 2
    /\ ~EdgeAttrs(1).unsafe /\ EdgeAttrs(1).cost = 2 /\ EdgeAttrs(1).source = "qiskit"
    /\ EdgeAttrs(2).unsafe /\ EdgeAttrs(2).cost = 1 /\ EdgeAttrs(2).source = "qasm2"

\* The annotation the claim gives for a transpiler.
ClaimedAttrs(a) ==
    IF a.unsafe
    THEN "[label=\"" \o ToString(a.cost) \o "; unsafe\", style=\"dashed\", "
            \o "color=\"#555555\", fontcolor=\"#555555\"]"
    ELSE IF a.cost = 1 THEN "" ELSE "[label=\"" \o ToString(a.cost) \o "\"]"

\* C2: every edge line is "source" -> "target" followed by the annotation:
\* label "<cost>; unsafe", dashed and gray when unsafe (also at cost 1); nothing
\* when safe at cost 1; only the label with the cost when safe at another cost.
C2_EdgeAnnotation ==
    transpilers_dot.exists =>
        /\ Len(edge_lines) = Len(edges)
        /\ \A i \in 1..Len(edges) :
              edge_lines[i] =
                  "\"" \o EdgeAttrs(i).source \o "\" -> \"" \o EdgeAttrs(i).target
                       \o "\" " \o ClaimedAttrs(EdgeAttrs(i))

\* A written graph with an unsafe edge of cost 1 after a safe edge of cost 2.
C2_Witness ==
    /\ transpilers_dot.exists
    /\ transpilers_dot.text =
          "digraph {\n\"qasm2\" -> \"qiskit\" [label=\"2\"]\n"
             \o "\"qiskit\" -> \"qasm2\" [label=\"1; unsafe\", style=\"dashed\", "
             \o "color=\"#555555\", fontcolor=\"#555555\"]\n}\n"

\* The transpiler types get_transpilers returns for some known format.
ReturnedTypes ==
    {t \in TypeIds : \E f \in Formats :
        \E i \in 1..Len(registry.returned[f]) : registry.returned[f][i] = t}

\* C3: the written graph has exactly one edge line per distinct transpiler
\* type returned for any known format.
C3_OneEdgePerType ==
    transpilers_dot.exists =>
        /\ Len(edge_lines) = Cardinality(ReturnedTypes)
        /\ Len(edges) = Len(edge_lines)
        /\ \A t \in ReturnedTypes :
              Cardinality({i \in 1..Len(edges) : edges[i] = t}) = 1
        /\ \A i \in 1..Len(edges) : edges[i] \in ReturnedTypes

\* A written graph with the single edge of a type returned for both formats.
C3_Witness ==
    /\ transpilers_dot.exists
    /\ \A f \in Formats : registry.returned[f] = <<1>>
    /\ Len(edge_lines) = 1

\* C5: every write of transpilers.dot writes the text a run produces for any
\* iteration order of the set of transpiler types, so two runs over the same
\* metadata write the same bytes.
C5_SameGraphForEveryOrder ==
    [][pc = "write_dot" /\ pc' = "read_api" =>
          /\ transpilers_dot'.exists
          /\ \A order \in IterationOrders(transpilers) :
                GraphText(EdgeLines(Sorted(order, registry.types), registry.types))
                    = transpilers_dot'.text]_vars

\* A written graph of two distinct types with the same key, which the sort
\* leaves in iteration order.
C5_Witness ==
    /\ transpilers_dot.exists
    /\ transpilers = {1, 2}
    /\ SortKey(registry.types[1]) = SortKey(registry.types[2])
    /\ edges = <<2, 1>>
    /\ Sorted(<<1, 2>>, registry.types) = <<1, 2>>

(* ------------------------------------------------------------------ *)
(* Failures and project metadata: C4, C10 (under SpecEnv)             *)
(* ------------------------------------------------------------------ *)
Finished == pc \in {"done", "set_up"}

\* C4: after a missing or malformed manifest (also one without [tool.sphinx]),
\* a failed "flask openapi write" or a missing API specification the script
\* is aborted and no later step has run: transpilers.dot is not written after
\* a manifest or subprocess failure, and the API specification is not read.
C4_FailureAborts ==
    /\ (pyproject.file # "ok" \/ pyproject.sphinx.t # "table") /\ pc # "load_manifest"
          => pc = "aborted" /\ ~transpilers_dot.exists
    /\ flask.result # "ok" /\ pc \notin {"load_manifest", "run_flask"}
          => pc = "aborted" /\ ~transpilers_dot.exists
    /\ ~api_json.exists /\ pc \notin {"load_manifest", "run_flask", "collect",
                                      "build_graph", "write_dot", "read_api"}
          => pc = "aborted"

\* C10: after the script, release is the manifest's release when present and
\* the package version otherwise, and version is the package version.
C10_Metadata ==
    Finished =>
        /\ release = PyStr(Get(pyproject.sphinx.v, "release", pyproject.version))
        /\ version = PyStr(pyproject.version)

(* ------------------------------------------------------------------ *)
(* Extensions and markdown: C6, C8 (under SpecConfig)                 *)
(* ------------------------------------------------------------------ *)
Count(seq, x) == Cardinality({i \in 1..Len(seq) : seq[i] = x})

\* The value the manifest gives a key of [tool.sphinx].
Manifest(k) == pyproject.sphinx.v[k]

\* C6: after the script, for each of the seven flags, its sphinx.ext.*
\* extension is in extensions if and only if the flag is truthy, and at most
\* once.
C6_FlagsGateExtensions ==
    Finished =>
        \A k \in FlagKeys :
            /\ (Count(extensions, FlagExtension(k)) > 0) <=> Truthy(Manifest(k))
            /\ Count(extensions, FlagExtension(k)) <= 1

UpperChar(c) ==
    CASE c = "m" -> "M" [] c = "y" -> "Y" [] c = "s" -> "S" [] c = "t" -> "T"
      [] c = "r" -> "R" [] c = "e" -> "E" [] c = "c" -> "C" [] c = "o" -> "O"
      [] c = "n" -> "N" [] c = "a" -> "A" [] c = "k" -> "K"
      [] OTHER -> c

\* s is the word (given in lower case) in some letter case.
InAnyCase(s, word) ==
    /\ Len(s) = Len(word)
    /\ \A i \in 1..Len(word) : s[i] \in {word[i], UpperChar(word[i])}

MarkdownParsers == {"myst_parser", "recommonmark"}

\* The markdown parser extensions in extensions, in order.
ParsersIn(exts) == SelectSeq(exts, LAMBDA e : e \in MarkdownParsers)

ConfiguredMdExtensions ==
    LET myst == Manifest("myst")
    IN IF myst.t = "table" /\ "extensions" \in DOMAIN myst.v
          /\ myst.v["extensions"].t = "list"
       THEN myst.v["extensions"].v
       ELSE <<>>

\* The positions of xs that hold an allowed name.
AllowedPositions(xs) == {i \in 1..Len(xs) : xs[i] \in allowed_md_extensions}

\* The k-th smallest position of a set of positions.
NthPosition(P, k) == CHOOSE i \in P : Cardinality({j \in P : j <= i}) = k

\* C9: myst_enable_extensions always holds only allowed names; once the script
\* has ended it is the configured list without the names that are not allowed,
\* the others in their order, and <<>> when no list is configured.
C9_OnlyAllowedMdExtensions ==
    /\ \A i \in 1..Len(myst_enable_extensions) :
          myst_enable_extensions[i] \in allowed_md_extensions
    /\ Finished \/ pc = "aborted" =>
          LET xs == ConfiguredMdExtensions
          IN /\ Len(myst_enable_extensions) = Cardinality(AllowedPositions(xs))
             /\ \A k \in 1..Len(myst_enable_extensions) :
                   myst_enable_extensions[k] = xs[NthPosition(AllowedPositions(xs), k)]

\* A finished run whose manifest lists an unknown name before an allowed one.
C9_Witness ==
    /\ Finished
    /\ ConfiguredMdExtensions = <<"mermaid", "tasklist">>
    /\ myst_enable_extensions = <<"tasklist">>

(* ------------------------------------------------------------------ *)
(* The setup hook: C7 (under SpecSetup)                               *)
(* ------------------------------------------------------------------ *)
\* k2 is k with every hyphen replaced by an underscore.
IsUnderscored(k2, k) ==
    /\ Len(k2) = Len(k)
    /\ \A i \in 1..Len(k) : k2[i] = IF k[i] = "-" THEN "_" ELSE k[i]

\* C7: setup(app) registers recommonmark_config and then the AutoStructify
\* transform exactly when the recommonmark table is not empty, and makes no
\* call on the app otherwise; the registered config holds every key of the
\* table with its hyphens replaced by underscores. Nothing else touches the app.
C7_SetupRegisters ==
    LET rcm == Manifest("recommonmark")
        nonempty == rcm.t = "table" /\ DOMAIN rcm.v # {}
    IN /\ pc # "set_up" => app = <<>>
       /\ pc = "set_up" /\ ~nonempty => app = <<>>
       /\ pc = "set_up" /\ nonempty =>
             /\ Len(app) = 2
             /\ app[1].call = "add_config_value" /\ app[1].name = "recommonmark_config"
             /\ app[2].call = "add_transform" /\ app[2].transform = "AutoStructify"
             /\ \A k \in DOMAIN rcm.v :
                   \E k2 \in DOMAIN app[1].value : IsUnderscored(k2, k)

\* The hook has registered a table with a key of two hyphens.
C7_Witness ==
    /\ pc = "set_up"
    /\ Len(app) = 2
    /\ <<"a", "-", "b", "-", "c">> \in DOMAIN Manifest("recommonmark").v
    /\ <<"a", "_", "b", "_", "c">> \in DOMAIN app[1].value

====
